---- MODULE Spec2Model ----
(***************************************************************************)
(* A model of sampy/tools/projtmp.py, the project template generator:      *)
(* main runs init_project_dir, update_template, init_repo and init_venv on *)
(* a file system, a git repository, the GitHub API and two subprocesses.   *)
(* Strings are sequences of one-character strings, so that str.replace and *)
(* the sed substitutions are computed character by character.              *)
(***************************************************************************)
EXTENDS Integers, Sequences, FiniteSets, TLC

\* ------------------------------------------------------------------ bounds
\* How many times the script is run in a row against the same project_dir.
MaxRuns == 2

\* ----------------------------------------------------------------- strings
HY == <<"-">>
US == <<"_">>
ST == <<"s", "t">>
EXPERIMENT == <<"e", "x", "p", "e", "r", "i", "m", "e", "n", "t">>
TEMPLATE == <<"t", "e", "m", "p", "l", "a", "t", "e">>
MY == <<"m", "y">>
WIDGET == <<"w", "i", "d", "g", "e", "t">>
TESTS == <<"t", "e", "s", "t", "s">>

\* str.replace(old, new) of Python, and the effect of sed's s/old/new/g on one
\* line when old holds no regular-expression metacharacter and new holds none
\* of & \ /: the leftmost occurrences, left to right, never overlapping, and
\* the inserted text is not scanned again.
RECURSIVE ReplaceFrom(_, _, _, _)
ReplaceFrom(s, old, new, i) ==
    IF i > Len(s) THEN <<>>
    ELSE IF i + Len(old) - 1 <= Len(s) /\ SubSeq(s, i, i + Len(old) - 1) = old
         THEN new \o ReplaceFrom(s, old, new, i + Len(old))
         ELSE <<s[i]>> \o ReplaceFrom(s, old, new, i + 1)

StrReplace(s, old, new) == ReplaceFrom(s, old, new, 1)

\* "old in s" of Python: old occurs in s as a substring.
Contains(s, old) ==
    \E i \in 1..Len(s) : i + Len(old) - 1 <= Len(s) /\ SubSeq(s, i, i + Len(old) - 1) = old

\* basename(DEFAULT_LOCAL_TEMPLATE)
template_name == ST \o HY \o EXPERIMENT \o HY \o TEMPLATE
\* template_name.replace('-', '_')
template_src_dir == StrReplace(template_name, HY, US)
\* project_name.replace('-', '_')
SnakeOf(project_name) == StrReplace(project_name, HY, US)

\* zipd: the two (to_replace, replace_with) pairs, in the order of the loop.
zipd(project_name) ==
    << <<template_src_dir, SnakeOf(project_name)>>, <<template_name, project_name>> >>

\* sed without the g flag: the first occurrence only.
SedSubstFirst(content, pair) ==
    LET at == {i \in 1..(Len(content) - Len(pair[1]) + 1) :
                  SubSeq(content, i, i + Len(pair[1]) - 1) = pair[1]}
    IN IF at = {} THEN content
       ELSE LET i == CHOOSE k \in at : \A m \in at : k <= m
            IN SubSeq(content, 1, i - 1) \o pair[2]
               \o SubSeq(content, i + Len(pair[1]), Len(content))

\* One file through sed -i "s/to_replace/replace_with/g".
SedSubst(content, pair) == StrReplace(content, pair[1], pair[2])


\* ------------------------------------------------------------------ inputs
\* The project names of the runs: the spec's example my-widget, the template's
\* own name, a name that is a fragment of the template's name, and the name
\* of a directory a template may hold.
ProjectNames == {MY \o HY \o WIDGET, template_name, ST, TESTS}

\* sys.argv and os.environ as argparse reads them; github_user and
\* github_api_token are set, the empty string, or None (no option given and
\* no environment variable).
ArgSets ==
    {[project_name |-> n, sync |-> FALSE, github_user |-> "none", github_api_token |-> "none"] :
        n \in ProjectNames}
    \cup
    {[project_name |-> n, sync |-> TRUE, github_user |-> c[1], github_api_token |-> c[2]] :
        n \in ProjectNames,
        c \in {<<"set", "set">>, <<"none", "set">>, <<"set", "empty">>}}

\* The root of the tree, as the directory of a file.
ROOT == <<>>

\* The files of the st-experiment-template repository: a README naming the
\* template, and a module importing the template's package.
ReadmeText == <<"#">> \o template_name
ModuleText == <<"i">> \o template_src_dir

\* The template as found (locally, or on GitHub): with or without its .git
\* directory, with or without its package directory, with or without a
\* tests directory holding a test module.
TemplateOf(hasGit, hasSrc, hasTests) ==
    [hasGit |-> hasGit,
     dirs |-> (IF hasSrc THEN {template_src_dir} ELSE {}) \cup (IF hasTests THEN {TESTS} ELSE {}),
     files |-> <<[dir |-> ROOT, content |-> ReadmeText],
                 [dir |-> IF hasSrc THEN template_src_dir ELSE ROOT, content |-> ModuleText]>>
               \o (IF hasTests THEN <<[dir |-> TESTS, content |-> ModuleText]>> ELSE <<>>)]

Templates == {TemplateOf(g, s, t) : g \in BOOLEAN, s \in BOOLEAN, t \in BOOLEAN}

\* ------------------------------------------------------------------- state
VARIABLES
    args,       \* the parsed arguments of this run
    template,   \* the template repository, as the environment holds it
    pc,         \* the statement the run is at
    started,    \* the stages main has called so far, in order
    stage,      \* each stage's status: idle, running, done, failed
    err,        \* the statement whose exception ended the run ("" when none)
    fs,         \* proj_dir and repo_dir on disk
    repo,       \* the git repository under repo_dir/.git
    hosting,    \* the repository of the project's name on GitHub: absent, taken
                \* (there before the run), created, pushed
    net,        \* the network operations of this run, in order
    status,     \* req.status_code of the API response (0 before any)
    zi,         \* the index into zipd of update_template's loop
    subst,      \* per file, the zipd indexes sed has applied to it
    cwd,        \* the process working directory
    current,    \* init_venv's saved working directory
    venv,       \* the virtual environment: where it is, whether pip was upgraded
    rcs,        \* the return codes of init_venv's two subprocess calls
    runs,       \* how many runs have begun
    race,       \* two processes started at once on one proj_dir (SpecRace)
    s3,         \* a call of AwsS3.push_files_to_s3 (SpecS3)
    wrap,       \* a call of a function wrapped by log_exceptions (SpecWrap)
    rw          \* the text of one file through update_template's loop (SpecRewrite)

\* The state of the other specifications, which main never touches.
aux == <<race, s3, wrap, rw>>

vars == <<args, template, pc, started, stage, err, fs, repo, hosting, net, status,
          zi, subst, cwd, current, venv, rcs, runs, aux>>

\* main, lines 38-39: proj_dir and repo_dir as path components.
DEFAULT_PROJECT_DIR == <<"~", "Projects">>
ProjDir(a) == DEFAULT_PROJECT_DIR \o <<a.project_name>>
RepoDir(a) == ProjDir(a) \o <<a.project_name>>

\* The working directory the script is started from.
StartDir == <<"~">>

NoTree == [proj |-> FALSE, repo |-> FALSE, git |-> "none", dirs |-> {}, files |-> <<>>]
\* A proj_dir that exists before the first run and holds something else.
OtherTree == [proj |-> TRUE, repo |-> FALSE, git |-> "none", dirs |-> {}, files |-> <<>>]
NoRepo == [staged |-> FALSE, commits |-> 0, remotes |-> {}]
NoVenv == [at |-> <<>>, pip |-> FALSE]

Stages == {"init_project_dir", "update_template", "init_repo", "init_venv"}

\* The other specifications' variables while main runs: not in use.
AuxAtRest == race = <<>> /\ s3 = <<>> /\ wrap = <<>> /\ rw = <<>>

\* The variables of main and its stages.
main == <<args, template, pc, started, stage, err, fs, repo, hosting, net, status,
          zi, subst, cwd, current, venv, rcs, runs>>

\* What a fresh process starts with.
RunInit ==
    /\ pc = "main"
    /\ started = <<>>
    /\ stage = [s \in Stages |-> "idle"]
    /\ err = ""
    /\ net = <<>>
    /\ status = 0
    /\ zi = 1
    /\ cwd = StartDir
    /\ current = <<>>
    /\ rcs = <<>>

Init ==
    /\ args \in ArgSets
    /\ template \in Templates
    /\ fs \in {NoTree, OtherTree}
    /\ repo = NoRepo
    /\ hosting \in {"absent", "taken"}
    /\ subst = <<>>
    /\ venv = NoVenv
    /\ runs = 1
    /\ RunInit
    /\ AuxAtRest


\* ------------------------------------------------------------------- main
\* main with init_repo called before update_template.
StageOrderRepoFirst == <<"init_project_dir", "init_repo", "update_template", "init_venv">>

\* main, lines 41-44: the stages in the order main calls them.
StageOrder == <<"init_project_dir", "update_template", "init_repo", "init_venv">>

\* The first statement of each stage.
Entry(s) ==
    CASE s = "init_project_dir" -> "makedirs"
      [] s = "update_template" -> "rename"
      [] s = "init_repo" -> "git_init"
      [] s = "init_venv" -> "chdir"

\* The stage main is in: the last one it called.
Running == started[Len(started)]

\* A stage returns to main.
Return == /\ stage' = [stage EXCEPT ![Running] = "done"]
          /\ pc' = "main"
          /\ err' = err

\* A statement raises: nothing in the script catches, so the process ends.
Raise(at) == /\ stage' = [stage EXCEPT ![Running] = "failed"]
             /\ pc' = "failed"
             /\ err' = at

\* A statement of a stage completes and the stage goes on.
Goto(l) == /\ pc' = l
           /\ UNCHANGED <<stage, err>>

\* main calls its next stage.
MainCall ==
    /\ pc = "main"
    /\ Len(started) < Len(StageOrder)
    /\ LET s == StageOrder[Len(started) + 1] IN
          /\ started' = Append(started, s)
          /\ stage' = [stage EXCEPT ![s] = "running"]
          /\ pc' = Entry(s)
    /\ UNCHANGED <<args, template, err, fs, repo, hosting, net, status, zi, subst,
                   cwd, current, venv, rcs, runs, aux>>

\* main returns after its last stage: the process exits.
MainExit ==
    /\ pc = "main"
    /\ Len(started) = Len(StageOrder)
    /\ pc' = "done"
    /\ UNCHANGED <<args, template, started, stage, err, fs, repo, hosting, net, status,
                   zi, subst, cwd, current, venv, rcs, runs, aux>>

\* The exit status of the process: 0 when main returned, 1 when an exception
\* reached the top level, -1 while it runs.
ExitStatus == IF pc = "done" THEN 0 ELSE IF pc = "failed" THEN 1 ELSE -1

\* ------------------------------------------------------- init_project_dir
\* os.makedirs(proj_dir, exist_ok=True): an existing proj_dir is taken as it is.
MakedirsExistOk ==
    /\ pc = "makedirs"
    /\ \E ok \in BOOLEAN :
          IF ok THEN /\ fs' = [fs EXCEPT !.proj = TRUE]
                     /\ Goto(IF args.sync THEN "pull_makedirs" ELSE "copytree")
          ELSE /\ fs' = fs
               /\ Raise("makedirs")
    /\ UNCHANGED <<args, template, started, repo, hosting, net, status, zi, subst,
                   cwd, current, venv, rcs, runs, aux>>

\* init_project_dir copying the local template whatever args.sync is.
MakedirsAlwaysCopy ==
    /\ pc = "makedirs"
    /\ \/ /\ fs.proj
          /\ Raise("makedirs")
          /\ fs' = fs
       \/ /\ ~fs.proj
          /\ \E ok \in BOOLEAN :
                IF ok THEN /\ fs' = [fs EXCEPT !.proj = TRUE]
                           /\ Goto("copytree")
                ELSE /\ fs' = fs
                     /\ Raise("makedirs")
    /\ UNCHANGED <<args, template, started, repo, hosting, net, status, zi, subst,
                   cwd, current, venv, rcs, runs, aux>>

\* line 60, os.makedirs(proj_dir): FileExistsError when proj_dir exists, or
\* another OSError; else proj_dir is there.
Makedirs ==
    /\ pc = "makedirs"
    /\ \/ /\ fs.proj
          /\ Raise("makedirs")
          /\ fs' = fs
       \/ /\ ~fs.proj
          /\ \E ok \in BOOLEAN :
                IF ok THEN /\ fs' = [fs EXCEPT !.proj = TRUE]
                           /\ Goto(IF args.sync THEN "pull_makedirs" ELSE "copytree")
                ELSE /\ fs' = fs
                     /\ Raise("makedirs")
    /\ UNCHANGED <<args, template, started, repo, hosting, net, status, zi, subst,
                   cwd, current, venv, rcs, runs, aux>>

\* line 73, os.makedirs(repo_dir) of _pull_template.
PullMakedirs ==
    /\ pc = "pull_makedirs"
    /\ \E ok \in BOOLEAN :
          IF ok /\ ~fs.repo
          THEN /\ fs' = [fs EXCEPT !.repo = TRUE]
               /\ Goto("clone")
          ELSE /\ fs' = fs
               /\ Raise("pull_makedirs")
    /\ UNCHANGED <<args, template, started, repo, hosting, net, status, zi, subst,
                   cwd, current, venv, rcs, runs, aux>>

\* The tree a clone or a copy of the template leaves under repo_dir.
Materialized(f, hasGit) ==
    [f EXCEPT !.repo = TRUE,
              !.git = IF hasGit THEN "template" ELSE "none",
              !.dirs = template.dirs,
              !.files = template.files]

\* line 75, Repo.clone_from(template_url, repo_dir, branch='main'): one
\* network operation; a clone always carries a .git directory.
Clone ==
    /\ pc = "clone"
    /\ net' = Append(net, "clone")
    /\ \E ok \in BOOLEAN :
          IF ok THEN /\ fs' = Materialized(fs, TRUE)
                     /\ subst' = [f \in DOMAIN template.files |-> <<>>]
                     /\ Goto("rmtree")
          ELSE /\ UNCHANGED <<fs, subst>>
               /\ Raise("clone")
    /\ UNCHANGED <<args, template, started, repo, hosting, status, zi,
                   cwd, current, venv, rcs, runs, aux>>

\* line 64, shutil.copytree(DEFAULT_LOCAL_TEMPLATE, repo_dir): the copy holds
\* what the local template holds; an error may leave repo_dir created.
Copytree ==
    /\ pc = "copytree"
    /\ \E ok \in BOOLEAN :
          IF ok /\ ~fs.repo
          THEN /\ fs' = Materialized(fs, template.hasGit)
               /\ subst' = [f \in DOMAIN template.files |-> <<>>]
               /\ Goto("rmtree")
          ELSE /\ \E made \in BOOLEAN : fs' = [fs EXCEPT !.repo = fs.repo \/ made]
               /\ subst' = subst
               /\ Raise("copytree")
    /\ UNCHANGED <<args, template, started, repo, hosting, net, status, zi,
                   cwd, current, venv, rcs, runs, aux>>

\* rmtree of a path that is not the template's .git, errors ignored: the
\* directory stays.
RmtreeKeep ==
    /\ pc = "rmtree"
    /\ fs' = fs
    /\ Return
    /\ UNCHANGED <<args, template, started, repo, hosting, net, status, zi, subst,
                   cwd, current, venv, rcs, runs, aux>>

\* shutil.rmtree(repo_dir): the whole tree goes, not only its .git.
RmtreeRepoDir ==
    /\ pc = "rmtree"
    /\ fs' = [fs EXCEPT !.repo = FALSE, !.git = "none", !.dirs = {}, !.files = <<>>]
    /\ Return
    /\ UNCHANGED <<args, template, started, repo, hosting, net, status, zi, subst,
                   cwd, current, venv, rcs, runs, aux>>

\* lines 67-68, shutil.rmtree(join(repo_dir, '.git')): FileNotFoundError when
\* the template brought no .git directory.
Rmtree ==
    /\ pc = "rmtree"
    /\ IF fs.git = "none"
       THEN /\ fs' = fs
            /\ Raise("rmtree")
       ELSE /\ fs' = [fs EXCEPT !.git = "none"]
            /\ Return
    /\ UNCHANGED <<args, template, started, repo, hosting, net, status, zi, subst,
                   cwd, current, venv, rcs, runs, aux>>


\* -------------------------------------------------------- update_template
\* A new directory made under the new name while the files stay where they were.
RenameDirOnlyName(f, from, to) == [f EXCEPT !.dirs = (f.dirs \ {from}) \cup {to}]

\* line 93, os.rename(template_src_pth, src_pth), on the tree: the directory
\* takes its new name and its files go with it.
RenameDir(f, from, to) ==
    [f EXCEPT !.dirs = (f.dirs \ {from}) \cup {to},
              !.files = [i \in DOMAIN f.files |->
                            IF f.files[i].dir = from
                            THEN [f.files[i] EXCEPT !.dir = to]
                            ELSE f.files[i]]]

\* lines 88-93: FileNotFoundError when the template's package directory is
\* not there, OSError when another directory already has the new name.
Rename ==
    /\ pc = "rename"
    /\ LET src_dir == SnakeOf(args.project_name) IN
          IF template_src_dir \notin fs.dirs
             \/ (src_dir \in fs.dirs /\ src_dir # template_src_dir)
          THEN /\ fs' = fs
               /\ Raise("rename")
          ELSE /\ fs' = RenameDir(fs, template_src_dir, src_dir)
               /\ Goto("sed")
    /\ UNCHANGED <<args, template, started, repo, hosting, net, status, zi, subst,
                   cwd, current, venv, rcs, runs, aux>>

\* lines 98-106, one turn of the loop: find lists every regular file under
\* repo_dir and xargs hands them to sed -i. The files sed cannot rewrite
\* (failed) keep their content. communicate() is not followed by any look at
\* the return code, so the loop goes on whatever sed did.
SedPass(f, pair, failed) ==
    [f EXCEPT !.files = [i \in DOMAIN f.files |->
                            IF i \in failed
                            THEN f.files[i]
                            ELSE [f.files[i] EXCEPT !.content = SedSubst(@, pair)]]]

\* What the loop does after a turn in which sed failed on the files `failed`:
\* the same as after any turn.
AfterSed(failed, more) == IF more THEN Goto("sed") ELSE Return

Sed ==
    /\ pc = "sed"
    /\ \E failed \in SUBSET DOMAIN fs.files :
          /\ fs' = SedPass(fs, zipd(args.project_name)[zi], failed)
          /\ subst' = [i \in DOMAIN subst |->
                          IF i \in failed THEN subst[i] ELSE Append(subst[i], zi)]
          /\ zi' = zi + 1
          /\ AfterSed(failed, zi < Len(zipd(args.project_name)))
    /\ UNCHANGED <<args, template, started, repo, hosting, net, status,
                   cwd, current, venv, rcs, runs, aux>>

\* --------------------------------------------------------------- init_repo
\* line 122, Repo.init(repo_dir).
GitInit ==
    /\ pc = "git_init"
    /\ \E ok \in BOOLEAN :
          IF ok THEN /\ fs' = [fs EXCEPT !.git = "fresh"]
                     /\ repo' = NoRepo
                     /\ Goto("git_add")
          ELSE /\ UNCHANGED <<fs, repo>>
               /\ Raise("git_init")
    /\ UNCHANGED <<args, template, started, hosting, net, status, zi, subst,
                   cwd, current, venv, rcs, runs, aux>>

\* line 123, repo.git.add(all=True).
GitAdd ==
    /\ pc = "git_add"
    /\ \E ok \in BOOLEAN :
          IF ok THEN /\ repo' = [repo EXCEPT !.staged = TRUE]
                     /\ Goto("git_commit")
          ELSE /\ repo' = repo
               /\ Raise("git_add")
    /\ UNCHANGED <<args, template, started, fs, hosting, net, status, zi, subst,
                   cwd, current, venv, rcs, runs, aux>>

\* init_repo without the call of init_github_repo: the remote is registered
\* and pushed to right after the commit.
GitCommitSkipCreate ==
    /\ pc = "git_commit"
    /\ \E ok \in BOOLEAN :
          IF ok THEN /\ repo' = [repo EXCEPT !.staged = FALSE, !.commits = @ + 1]
                     /\ IF args.sync THEN Goto("create_remote") ELSE Return
          ELSE /\ repo' = repo
               /\ Raise("git_commit")
    /\ UNCHANGED <<args, template, started, fs, hosting, net, status, zi, subst,
                   cwd, current, venv, rcs, runs, aux>>

\* lines 124-127, repo.git.commit('-m', 'init project template'), then the
\* test of args.sync.
GitCommit ==
    /\ pc = "git_commit"
    /\ \E ok \in BOOLEAN :
          IF ok THEN /\ repo' = [repo EXCEPT !.staged = FALSE, !.commits = @ + 1]
                     /\ IF args.sync THEN Goto("post") ELSE Return
          ELSE /\ repo' = repo
               /\ Raise("git_commit")
    /\ UNCHANGED <<args, template, started, fs, hosting, net, status, zi, subst,
                   cwd, current, venv, rcs, runs, aux>>

\* The status codes GitHub may answer POST /user/repos with: 401 to a request
\* whose basic auth does not hold an account and its token; else 201 when the
\* account has no repository of that name, 422 when it has one, or a 500.
Answers(a, h) ==
    IF a.github_user = "set" /\ a.github_api_token = "set"
    THEN (IF h = "absent" THEN {201} ELSE {422}) \cup {500}
    ELSE {401}

\* lines 158-161, requests.post(...): the request is sent with whatever
\* args holds; a connection error raises, else there is a response.
ApiPost ==
    /\ pc = "post"
    /\ net' = Append(net, "post")
    /\ \/ /\ Raise("post")
          /\ UNCHANGED <<status, hosting>>
       \/ /\ \E code \in Answers(args, hosting) :
                /\ status' = code
                /\ hosting' = IF code = 201 THEN "created" ELSE hosting
          /\ Goto("status_check")
    /\ UNCHANGED <<args, template, started, fs, repo, zi, subst,
                   cwd, current, venv, rcs, runs, aux>>

\* init_github_repo printing the response without raising.
StatusCheckNoRaise ==
    /\ pc = "status_check"
    /\ Goto("create_remote")
    /\ UNCHANGED <<args, template, started, fs, repo, hosting, net, status, zi, subst,
                   cwd, current, venv, rcs, runs, aux>>

\* lines 163-167: anything but 201 raises.
StatusCheck ==
    /\ pc = "status_check"
    /\ IF status # 201 THEN Raise("status_check") ELSE Goto("create_remote")
    /\ UNCHANGED <<args, template, started, fs, repo, hosting, net, status, zi, subst,
                   cwd, current, venv, rcs, runs, aux>>

\* lines 130-131, repo.create_remote('origin', url=repo_url).
CreateRemote ==
    /\ pc = "create_remote"
    /\ repo' = [repo EXCEPT !.remotes = @ \cup {"origin"}]
    /\ Goto("push")
    /\ UNCHANGED <<args, template, started, fs, hosting, net, status, zi, subst,
                   cwd, current, venv, rcs, runs, aux>>

\* A push whose failure is followed by the removal of the repository just
\* created on GitHub.
PushRollback ==
    /\ pc = "push"
    /\ net' = Append(net, "push")
    /\ \E ok \in BOOLEAN :
          IF ok THEN /\ hosting' = "pushed"
                     /\ Return
          ELSE /\ hosting' = "absent"
               /\ Raise("push")
    /\ UNCHANGED <<args, template, started, fs, repo, status, zi, subst,
                   cwd, current, venv, rcs, runs, aux>>

\* A push that is tried again when it fails.
PushRetry ==
    /\ pc = "push"
    /\ net' = Append(net, "push")
    /\ \E ok \in BOOLEAN :
          IF ok THEN /\ hosting' = "pushed"
                     /\ Return
          ELSE /\ hosting' = hosting
               /\ Goto("push")
    /\ UNCHANGED <<args, template, started, fs, repo, status, zi, subst,
                   cwd, current, venv, rcs, runs, aux>>

\* line 132, remote.push(refspec='main:main').
Push ==
    /\ pc = "push"
    /\ net' = Append(net, "push")
    /\ \E ok \in BOOLEAN :
          IF ok THEN /\ hosting' = "pushed"
                     /\ Return
          ELSE /\ hosting' = hosting
               /\ Raise("push")
    /\ UNCHANGED <<args, template, started, fs, repo, status, zi, subst,
                   cwd, current, venv, rcs, runs, aux>>

\* --------------------------------------------------------------- init_venv
\* lines 177-178: current = os.getcwd(); os.chdir(join(proj_dir, proj_name)).
Chdir ==
    /\ pc = "chdir"
    /\ current' = cwd
    /\ cwd' = ProjDir(args) \o <<args.project_name>>
    /\ Goto("venv")
    /\ UNCHANGED <<args, template, started, fs, repo, hosting, net, status, zi, subst,
                   venv, rcs, runs, aux>>

\* line 181, subprocess.call(['python', '-m', 'venv', '.venv']): the return
\* code is dropped; only a python that cannot be started raises. The
\* environment is made in the working directory; a venv that exits non-zero
\* has made it (failing in a later step of its own) or not.
VenvCreate ==
    /\ pc = "venv"
    /\ \/ /\ Raise("venv")
          /\ UNCHANGED <<venv, rcs>>
       \/ /\ \E rc \in {0, 1}, made \in BOOLEAN :
                /\ rc = 0 => made
                /\ rcs' = Append(rcs, rc)
                /\ venv' = IF made THEN [at |-> cwd \o <<".venv">>, pip |-> FALSE] ELSE venv
          /\ Goto("pip")
    /\ UNCHANGED <<args, template, started, fs, repo, hosting, net, status, zi, subst,
                   cwd, current, runs, aux>>

\* lines 182-184, subprocess.call([<repo_dir>/.venv/bin/pip, 'install',
\* '--upgrade', 'pip']): FileNotFoundError when there is no such pip.
PipUpgrade ==
    /\ pc = "pip"
    /\ IF venv.at # ProjDir(args) \o <<args.project_name, ".venv">>
       THEN /\ Raise("pip")
            /\ UNCHANGED <<venv, rcs>>
       ELSE /\ \E rc \in {0, 1} :
                  /\ rcs' = Append(rcs, rc)
                  /\ venv' = [venv EXCEPT !.pip = (rc = 0)]
            /\ Goto("chdir_back")
    /\ UNCHANGED <<args, template, started, fs, repo, hosting, net, status, zi, subst,
                   cwd, current, runs, aux>>

\* init_venv without its last line: the working directory stays repo_dir.
ChdirBackStay ==
    /\ pc = "chdir_back"
    /\ Return
    /\ UNCHANGED <<args, template, started, fs, repo, hosting, net, status, zi, subst,
                   cwd, current, venv, rcs, runs, aux>>

\* line 186, os.chdir(current).
ChdirBack ==
    /\ pc = "chdir_back"
    /\ cwd' = current
    /\ Return
    /\ UNCHANGED <<args, template, started, fs, repo, hosting, net, status, zi, subst,
                   current, venv, rcs, runs, aux>>

\* ------------------------------------------------------------------- runs
\* The script is started again with the same arguments, after the run before
\* it has ended: a new process, the same disk and the same GitHub account.
NewRun ==
    /\ pc \in {"done", "failed"}
    /\ runs < MaxRuns
    /\ runs' = runs + 1
    /\ pc' = "main"
    /\ started' = <<>>
    /\ stage' = [s \in Stages |-> "idle"]
    /\ err' = ""
    /\ net' = <<>>
    /\ status' = 0
    /\ zi' = 1
    /\ cwd' = StartDir
    /\ current' = <<>>
    /\ rcs' = <<>>
    /\ UNCHANGED <<args, template, fs, repo, hosting, subst, venv, aux>>

Next ==
    \/ MainCall \/ MainExit
    \/ Makedirs \/ PullMakedirs \/ Clone \/ Copytree \/ Rmtree
    \/ Rename \/ Sed
    \/ GitInit \/ GitAdd \/ GitCommit \/ ApiPost \/ StatusCheck \/ CreateRemote \/ Push
    \/ Chdir \/ VenvCreate \/ PipUpgrade \/ ChdirBack
    \/ NewRun

Spec == Init /\ [][Next]_vars


\* -------------------------------------------------- two runs at the same time
\* The script started twice at once with the same project_name, so on the
\* same proj_dir: each process runs init_project_dir and update_template,
\* the stages that copy, clone, delete and rewrite under proj_dir, up to its
\* call of init_repo. A process has its own --sync, statement, exception,
\* loop index and the list of what it wrote under proj_dir.
Procs == {1, 2}

\* The variables of main a second process of the script does not share.
mainButFs == <<args, template, pc, started, stage, err, repo, hosting, net, status,
               zi, subst, cwd, current, venv, rcs, runs>>

RaceProc(sync) == [sync |-> sync, pc |-> "makedirs", err |-> "", zi |-> 1, wrote |-> <<>>]

InitRace ==
    /\ args \in {a \in ArgSets : ~a.sync}
    /\ template \in Templates
    /\ fs \in {NoTree, OtherTree}
    /\ repo = NoRepo
    /\ hosting = "absent"
    /\ subst = <<>>
    /\ venv = NoVenv
    /\ runs = 1
    /\ RunInit
    /\ race \in [Procs -> {RaceProc(b) : b \in BOOLEAN}]
    /\ s3 = <<>> /\ wrap = <<>> /\ rw = <<>>

\* Process p goes on to statement l, having written op under proj_dir.
RaceGoto(p, l, op) == race' = [race EXCEPT ![p].pc = l, ![p].wrote = Append(@, op)]

\* A statement of process p raises: the process ends.
RaceRaise(p, at) == race' = [race EXCEPT ![p].pc = "failed", ![p].err = at]

\* os.makedirs(proj_dir, exist_ok=True) in process p.
RaceMakedirsExistOk(p) ==
    /\ race[p].pc = "makedirs"
    /\ fs' = [fs EXCEPT !.proj = TRUE]
    /\ RaceGoto(p, IF race[p].sync THEN "pull_makedirs" ELSE "copytree", "makedirs")
    /\ UNCHANGED <<mainButFs, s3, wrap, rw>>

\* line 60 in process p. os.makedirs ends in one mkdir(proj_dir) system
\* call, which either creates the directory or fails because it is there:
\* the test and the creation are one step.
RaceMakedirs(p) ==
    /\ race[p].pc = "makedirs"
    /\ IF fs.proj
       THEN /\ fs' = fs
            /\ RaceRaise(p, "makedirs")
       ELSE /\ fs' = [fs EXCEPT !.proj = TRUE]
            /\ RaceGoto(p, IF race[p].sync THEN "pull_makedirs" ELSE "copytree", "makedirs")
    /\ UNCHANGED <<mainButFs, s3, wrap, rw>>

\* line 73 in process p.
RacePullMakedirs(p) ==
    /\ race[p].pc = "pull_makedirs"
    /\ IF fs.repo
       THEN /\ fs' = fs
            /\ RaceRaise(p, "pull_makedirs")
       ELSE /\ fs' = [fs EXCEPT !.repo = TRUE]
            /\ RaceGoto(p, "clone", "makedirs")
    /\ UNCHANGED <<mainButFs, s3, wrap, rw>>

\* line 75 in process p.
RaceClone(p) ==
    /\ race[p].pc = "clone"
    /\ \E ok \in BOOLEAN :
          IF ok THEN /\ fs' = Materialized(fs, TRUE)
                     /\ RaceGoto(p, "rmtree", "clone")
          ELSE /\ fs' = fs
               /\ RaceRaise(p, "clone")
    /\ UNCHANGED <<mainButFs, s3, wrap, rw>>

\* line 64 in process p.
RaceCopytree(p) ==
    /\ race[p].pc = "copytree"
    /\ \E ok \in BOOLEAN :
          IF ok /\ ~fs.repo
          THEN /\ fs' = Materialized(fs, template.hasGit)
               /\ RaceGoto(p, "rmtree", "copytree")
          ELSE /\ fs' = fs
               /\ RaceRaise(p, "copytree")
    /\ UNCHANGED <<mainButFs, s3, wrap, rw>>

\* lines 67-68 in process p.
RaceRmtree(p) ==
    /\ race[p].pc = "rmtree"
    /\ IF fs.git = "none"
       THEN /\ fs' = fs
            /\ RaceRaise(p, "rmtree")
       ELSE /\ fs' = [fs EXCEPT !.git = "none"]
            /\ RaceGoto(p, "rename", "rmtree")
    /\ UNCHANGED <<mainButFs, s3, wrap, rw>>

\* lines 88-93 in process p.
RaceRename(p) ==
    /\ race[p].pc = "rename"
    /\ LET src_dir == SnakeOf(args.project_name) IN
          IF template_src_dir \notin fs.dirs
             \/ (src_dir \in fs.dirs /\ src_dir # template_src_dir)
          THEN /\ fs' = fs
               /\ RaceRaise(p, "rename")
          ELSE /\ fs' = RenameDir(fs, template_src_dir, src_dir)
               /\ RaceGoto(p, "sed", "rename")
    /\ UNCHANGED <<mainButFs, s3, wrap, rw>>

\* lines 98-106 in process p, one turn of the loop; after the last turn the
\* process is at its call of init_repo.
RaceSed(p) ==
    /\ race[p].pc = "sed"
    /\ \E failed \in SUBSET DOMAIN fs.files :
          /\ fs' = SedPass(fs, zipd(args.project_name)[race[p].zi], failed)
          /\ race' = [race EXCEPT ![p].zi = @ + 1,
                                  ![p].wrote = Append(@, "sed"),
                                  ![p].pc = IF race[p].zi < Len(zipd(args.project_name))
                                            THEN "sed" ELSE "init_repo"]
    /\ UNCHANGED <<mainButFs, s3, wrap, rw>>

NextRace ==
    \E p \in Procs :
        \/ RaceMakedirs(p) \/ RacePullMakedirs(p) \/ RaceClone(p) \/ RaceCopytree(p)
        \/ RaceRmtree(p) \/ RaceRename(p) \/ RaceSed(p)

SpecRace == InitRace /\ [][NextRace]_vars

\* ------------------------------------------------ utils/logger.log_exceptions
\* How many calls of the wrapped function a behaviour makes.
MaxCalls == 3

\* What the wrapped function may do: return a value (None among them), raise
\* an exception of a class derived from Exception, or raise one derived from
\* BaseException only.
ReturnValues == {"None", "0", "x"}
ExceptionClasses == {"ValueError", "KeyError"}
BaseOnlyClasses == {"KeyboardInterrupt", "SystemExit"}

Outcomes ==
    {[kind |-> "return", what |-> v] : v \in ReturnValues}
    \cup {[kind |-> "raise", what |-> e] : e \in ExceptionClasses \cup BaseOnlyClasses}

\* line 182, except Exception as e: the classes the clause catches.
Caught(e) == e \in ExceptionClasses

InitWrap ==
    /\ args = [project_name |-> MY \o HY \o WIDGET, sync |-> FALSE,
               github_user |-> "none", github_api_token |-> "none"]
    /\ template = TemplateOf(TRUE, TRUE, FALSE)
    /\ fs = NoTree
    /\ repo = NoRepo
    /\ hosting = "absent"
    /\ subst = <<>>
    /\ venv = NoVenv
    /\ runs = 1
    /\ RunInit
    /\ \E r \in BOOLEAN :
          wrap = [raise_exception |-> r, pc |-> "idle", calls |-> 0,
                  outcome |-> [kind |-> "none", what |-> "none"],
                  e |-> "none", result |-> "none", raised |-> "none",
                  log |-> <<>>, mark |-> 0]
    /\ race = <<>> /\ s3 = <<>> /\ rw = <<>>

\* line 179: wrapper(*args, **kwargs) is called and enters its try.
WrapCall ==
    /\ wrap.pc \in {"idle", "returned", "raised"}
    /\ wrap.calls < MaxCalls
    /\ wrap' = [wrap EXCEPT !.pc = "try", !.calls = @ + 1,
                            !.outcome = [kind |-> "none", what |-> "none"],
                            !.e = "none", !.result = "none", !.raised = "none",
                            !.mark = Len(wrap.log)]
    /\ UNCHANGED <<main, race, s3, rw>>

\* lines 180-182: return func(*args, **kwargs) hands on what func returns;
\* an exception the except clause catches is bound to e, any other leaves
\* the wrapper as it is.
WrapFunc ==
    /\ wrap.pc = "try"
    /\ \E o \in Outcomes :
          wrap' = IF o.kind = "return"
                  THEN [wrap EXCEPT !.outcome = o, !.pc = "returned", !.result = o.what]
                  ELSE IF Caught(o.what)
                       THEN [wrap EXCEPT !.outcome = o, !.pc = "except", !.e = o.what]
                       ELSE [wrap EXCEPT !.outcome = o, !.pc = "raised", !.raised = o.what]
    /\ UNCHANGED <<main, race, s3, rw>>

\* The handler without its raise: the exception is logged and dropped.
WrapExceptSwallow ==
    /\ wrap.pc = "except"
    /\ wrap' = [wrap EXCEPT !.log = Append(@, [level |-> "ERROR", exc |-> wrap.e]),
                            !.pc = "returned", !.result = "None"]
    /\ UNCHANGED <<main, race, s3, rw>>

\* lines 183-185: logger.error(..., exc_info=True), then raise e from None
\* when raise_exception, else the wrapper falls off its end and returns None.
WrapExcept ==
    /\ wrap.pc = "except"
    /\ wrap' = IF wrap.raise_exception
               THEN [wrap EXCEPT !.log = Append(@, [level |-> "ERROR", exc |-> wrap.e]),
                                 !.pc = "raised", !.raised = wrap.e]
               ELSE [wrap EXCEPT !.log = Append(@, [level |-> "ERROR", exc |-> wrap.e]),
                                 !.pc = "returned", !.result = "None"]
    /\ UNCHANGED <<main, race, s3, rw>>

NextWrap == WrapCall \/ WrapFunc \/ WrapExcept

SpecWrap == InitWrap /\ [][NextWrap]_vars

\* --------------------------------------------- utils/aws_s3.push_files_to_s3
\* How many entries local_dir holds at most.
MaxEntries == 2

DOT == "."
DS_STORE == <<DOT, "D", "S", "_", "S", "t", "o", "r", "e">>
TXT == <<DOT, "t", "x", "t">>
CSV == <<DOT, "c", "s", "v">>

\* The names os.listdir may give.
EntryNames == {DS_STORE, <<"a">> \o TXT, <<"b">> \o CSV, <<"c">>}

\* The listings of local_dir: its names, each once, in any order.
Listings ==
    {q \in UNION {[1..n -> EntryNames] : n \in 0..MaxEntries} :
        \A i, j \in DOMAIN q : i # j => q[i] # q[j]}

\* os.path.splitext(file)[-1]: the text from the last dot on, the empty
\* string when there is no dot or only leading ones.
SplitExt(file) ==
    LET dots == {i \in DOMAIN file : file[i] = DOT}
        lead == {i \in DOMAIN file : \A j \in 1..i : file[j] = DOT}
    IN IF dots \subseteq lead THEN <<>>
       ELSE LET last == CHOOSE i \in dots : \A j \in dots : j <= i
            IN SubSeq(file, last, Len(file))

\* line 106, def _check_ignore(file, **kwrgs): its positional parameters.
CheckIgnoreParams == <<"file">>

\* line 99, self._check_ignore(file, **kwrgs): a call through the instance
\* passes the instance first.
CheckIgnoreCall(file) == <<"self", file>>

\* lines 106-111 called with the positional arguments given: TypeError when
\* they are more than the parameters, else any([dss_chk, ext_chk]) of the
\* argument bound to file. kwrgs.get('ingore_ext', []) reads that key only.
CheckIgnore(positional, kwrgs) ==
    IF Len(positional) # Len(CheckIgnoreParams)
    THEN [raised |-> TRUE, value |-> FALSE]
    ELSE LET file == positional[1]
             dss_chk == file = DS_STORE
             ext_chk == SplitExt(file) \in (IF kwrgs.key = "ingore_ext" THEN kwrgs.exts ELSE {})
         IN [raised |-> FALSE, value |-> dss_chk \/ ext_chk]

InitS3 ==
    /\ args = [project_name |-> MY \o HY \o WIDGET, sync |-> FALSE,
               github_user |-> "none", github_api_token |-> "none"]
    /\ template = TemplateOf(TRUE, TRUE, FALSE)
    /\ fs = NoTree
    /\ repo = NoRepo
    /\ hosting = "absent"
    /\ subst = <<>>
    /\ venv = NoVenv
    /\ runs = 1
    /\ RunInit
    /\ \E m \in {"push_files_to_s3", "push_file_to_s3"}, q \in Listings,
          x \in SUBSET {TXT, CSV}, k \in {"ingore_ext", "ignore_ext"} :
          /\ m = "push_file_to_s3" => Len(q) = 1
          /\ s3 = [method |-> m, listing |-> q, kwrgs |-> [key |-> k, exts |-> x],
                   pc |-> IF m = "push_files_to_s3" THEN "loop" ELSE "upload",
                   i |-> 1, uploads |-> <<>>, ignored |-> <<>>, errors |-> <<>>]
    /\ race = <<>> /\ wrap = <<>> /\ rw = <<>>

\* lines 98-103, one turn of the loop of push_files_to_s3. An exception of
\* _check_ignore is logged by its log_exceptions wrapper and again by that of
\* push_files_to_s3, and leaves the call.
S3Loop ==
    /\ s3.pc = "loop"
    /\ IF s3.i > Len(s3.listing)
       THEN s3' = [s3 EXCEPT !.pc = "returned"]
       ELSE LET file == s3.listing[s3.i]
                r == CheckIgnore(CheckIgnoreCall(file), s3.kwrgs)
            IN IF r.raised
               THEN s3' = [s3 EXCEPT !.pc = "raised",
                                     !.errors = @ \o <<"_check_ignore", "push_files_to_s3">>]
               ELSE IF r.value
                    THEN s3' = [s3 EXCEPT !.ignored = Append(@, file), !.i = @ + 1]
                    ELSE s3' = [s3 EXCEPT !.pc = "upload"]
    /\ UNCHANGED <<main, race, wrap, rw>>

\* lines 114-120, push_file_to_s3: client.upload_file puts the file in the
\* bucket or raises; the exception is logged by the wrapper of each method
\* it leaves.
S3Upload ==
    /\ s3.pc = "upload"
    /\ \E ok \in BOOLEAN :
          s3' = IF ok
                THEN [s3 EXCEPT !.uploads = Append(@, s3.listing[s3.i]),
                                !.i = @ + 1,
                                !.pc = IF s3.method = "push_files_to_s3" THEN "loop" ELSE "returned"]
                ELSE [s3 EXCEPT !.pc = "raised",
                                !.errors = @ \o (IF s3.method = "push_files_to_s3"
                                                 THEN <<"push_file_to_s3", "push_files_to_s3">>
                                                 ELSE <<"push_file_to_s3">>)]
    /\ UNCHANGED <<main, race, wrap, rw>>

NextS3 == S3Loop \/ S3Upload

SpecS3 == InitS3 /\ [][NextS3]_vars

\* ------------------------------ update_template, the substitution on a file
\* How many pieces a file's content is put together from.
MaxParts == 2

\* Pieces of content: the two template tokens, what is left of each when its
\* head is cut, and text that holds neither.
Parts ==
    {template_name, template_src_dir,
     SubSeq(template_src_dir, 3, Len(template_src_dir)),
     SubSeq(template_name, 2, Len(template_name)),
     <<"x">>}

RECURSIVE Concat(_)
Concat(q) == IF q = <<>> THEN <<>> ELSE Head(q) \o Concat(Tail(q))

Contents == {Concat(q) : q \in UNION {[1..n -> Parts] : n \in 1..MaxParts}}

InitRewrite ==
    /\ args \in {a \in ArgSets : ~a.sync}
    /\ template = TemplateOf(TRUE, TRUE, FALSE)
    /\ fs = NoTree
    /\ repo = NoRepo
    /\ hosting = "absent"
    /\ subst = <<>>
    /\ venv = NoVenv
    /\ runs = 1
    /\ RunInit
    /\ \E c \in Contents :
          rw = [content |-> c, text |-> c, zi |-> 1, applied |-> 0, once |-> c]
    /\ race = <<>> /\ s3 = <<>> /\ wrap = <<>>

\* lines 97-106 on one file: the sed call of one turn of the loop over zipd;
\* the turn after the last ends one application of the substitution.
RewriteSed ==
    /\ rw # <<>>
    /\ rw.zi <= Len(zipd(args.project_name))
    /\ LET text == SedSubst(rw.text, zipd(args.project_name)[rw.zi])
       IN rw' = [rw EXCEPT !.text = text, !.zi = @ + 1,
                           !.once = IF rw.applied = 0 /\ rw.zi = Len(zipd(args.project_name))
                                    THEN text ELSE @]
    /\ UNCHANGED <<main, race, s3, wrap>>

\* The loop has ended; the substitution is applied to the same file again.
RewriteAgain ==
    /\ rw # <<>>
    /\ rw.zi > Len(zipd(args.project_name))
    /\ rw.applied = 0
    /\ rw' = [rw EXCEPT !.zi = 1, !.applied = 1]
    /\ UNCHANGED <<main, race, s3, wrap>>

NextRewrite == RewriteSed \/ RewriteAgain

SpecRewrite == InitRewrite /\ [][NextRewrite]_vars

\* ----------------------------------------------------------------- claims
Range(q) == {q[i] : i \in DOMAIN q}
IsPrefix(p, q) == Len(p) <= Len(q) /\ SubSeq(q, 1, Len(p)) = p

\* C1: in every run the stages start in the order init_project_dir,
\* update_template, init_repo, init_venv, each at most once; a stage starts
\* only when every stage before it is done, and at most one is running.
C1_StagesInOrder ==
    /\ IsPrefix(started, <<"init_project_dir", "update_template", "init_repo", "init_venv">>)
    /\ \A s \in Stages : (stage[s] # "idle") <=> (s \in Range(started))
    /\ \A i \in 1..(Len(started) - 1) : stage[started[i]] = "done"
    /\ Cardinality({s \in Stages : stage[s] = "running"}) <= 1

C1_Witness ==
    /\ pc = "done"
    /\ Len(started) = 4
    /\ \A s \in Stages : stage[s] = "done"

\* sed has failed on a file in a turn of the loop that is over: the turn's
\* index is missing from what was applied to the file.
SubstFailed ==
    \E f \in DOMAIN subst : \E k \in 1..2 :
        /\ k < zi \/ stage["update_template"] = "done"
        /\ stage["update_template"] # "idle"
        /\ k \notin Range(subst[f])

\* C2: every stage is fail-fast: once a step has failed no later stage is
\* started; in particular after a substitution error on a file init_repo is
\* never started, and no commit of that tree is made.
C2_FailFast ==
    /\ pc = "failed" => \A s \in Stages : stage[s] # "running"
    /\ SubstFailed => /\ stage["init_repo"] = "idle"
                      /\ stage["init_venv"] = "idle"
                      /\ repo.commits = 0

\* C3: when proj_dir exists as init_project_dir starts, os.makedirs raises
\* and the run ends there: the tree, the repository, the GitHub account and
\* the environment stay as they were and nothing goes over the network, in
\* that step and for the rest of the run.
C3_ExistingDirUntouched ==
    [][/\ (pc = "makedirs" /\ fs.proj) =>
            /\ pc' = "failed" /\ err' = "makedirs"
            /\ fs' = fs /\ repo' = repo /\ hosting' = hosting /\ net' = net
            /\ subst' = subst /\ venv' = venv
       /\ (pc = "failed" /\ err = "makedirs") =>
            /\ fs' = fs /\ repo' = repo /\ hosting' = hosting /\ net' = <<>>
            /\ subst' = subst /\ venv' = venv]_vars

\* The second run has failed on the proj_dir the first run made, and the first
\* run's repository, with its one commit, is there.
C3_Witness ==
    /\ runs = 2
    /\ pc = "failed" /\ err = "makedirs"
    /\ fs.git = "fresh" /\ repo.commits = 1
    /\ net = <<>>

MissingCredentials(a) == a.github_user # "set" \/ a.github_api_token # "set"

\* C4: a run with --sync whose account or token is missing or empty is
\* rejected before any side effect: no step of it changes the disk, the
\* repository or the GitHub account, and none uses the network.
C4_RejectedBeforeSideEffects ==
    [][(args.sync /\ MissingCredentials(args)) =>
            /\ fs' = fs /\ repo' = repo /\ hosting' = hosting
            /\ net' = net \/ net' = <<>>]_vars

\* C5: after an API response with a status other than 201 the run is at the
\* status test or has failed there; no remote is registered, no push is
\* made, and the local repository holds exactly one commit.
C5_NoPushUnlessCreated ==
    (status # 0 /\ status # 201) =>
        /\ pc \in {"status_check", "failed"}
        /\ pc = "failed" => err = "status_check"
        /\ repo.remotes = {}
        /\ "push" \notin Range(net)
        /\ hosting \in {"absent", "taken"}
        /\ fs.git = "fresh" /\ repo.commits = 1

C5_Witness ==
    /\ pc = "failed" /\ err = "status_check"
    /\ status = 422
    /\ repo.commits = 1 /\ repo.remotes = {}

\* The state of init_repo's state machine.
RepoState ==
    IF stage["init_repo"] = "done" THEN "DONE"
    ELSE IF hosting \in {"created", "pushed"} THEN "REMOTE_CREATED"
    ELSE IF repo.commits > 0 THEN "LOCAL_COMMITTED"
    ELSE "UNINITIALIZED"

\* C6: with --sync, init_repo goes UNINITIALIZED, LOCAL_COMMITTED,
\* REMOTE_CREATED, DONE, one state at a time and never back: the API call is
\* made only after the commit, the remote is registered and pushed to only
\* after a 201, DONE is reached only by the push, and the create call and
\* the push are each made once.
C6_RepoStateMachine ==
    /\ [](args.sync /\ stage["init_repo"] # "idle" =>
            /\ IsPrefix(net, <<"clone", "post", "push">>)
            /\ "post" \in Range(net) => repo.commits = 1 /\ ~repo.staged
            /\ (repo.remotes # {} \/ "push" \in Range(net)) =>
                    status = 201 /\ hosting \in {"created", "pushed"} /\ repo.remotes = {"origin"}
            /\ stage["init_repo"] = "done" => hosting = "pushed" /\ net[Len(net)] = "push"
            /\ hosting = "pushed" => stage["init_repo"] = "done")
    /\ [][(args.sync /\ stage["init_repo"] = "running" /\ RepoState' # RepoState) =>
            <<RepoState, RepoState'>> \in {<<"UNINITIALIZED", "LOCAL_COMMITTED">>,
                                           <<"LOCAL_COMMITTED", "REMOTE_CREATED">>,
                                           <<"REMOTE_CREATED", "DONE">>}]_vars

C6_Witness ==
    /\ args.sync
    /\ stage["init_repo"] = "done"
    /\ hosting = "pushed"
    /\ net = <<"clone", "post", "push">>

\* C7, as claimed: without --sync the repo_dir a run leaves holds no
\* top-level .git directory.
C7_NoGitDirAfterRun == (~args.sync /\ pc = "done") => fs.git = "none"

\* C7, amended: without --sync repo_dir holds no .git directory from the
\* time init_project_dir returns until init_repo runs, and never again the
\* template's; the repo_dir a completed run leaves holds the .git directory
\* init_repo made, with one commit.
C7_NoTemplateGitDir ==
    ~args.sync =>
        /\ (stage["init_project_dir"] = "done" /\ stage["init_repo"] = "idle") => fs.git = "none"
        /\ stage["init_project_dir"] = "done" => fs.git # "template"
        /\ pc = "done" => fs.git = "fresh" /\ repo.commits = 1

C7_Witness ==
    /\ ~args.sync
    /\ pc = "done"
    /\ fs.git = "fresh"

\* C8: for every project name and template content, once update_template
\* has returned no file under repo_dir contains st_experiment_template or
\* st-experiment-template.
C8_NoTemplateTokenLeft ==
    stage["update_template"] = "done" =>
        \A f \in DOMAIN fs.files :
            /\ ~Contains(fs.files[f].content, template_src_dir)
            /\ ~Contains(fs.files[f].content, template_name)

\* The files of directory d, by index.
FilesIn(f, d) == {i \in DOMAIN f.files : f.files[i].dir = d}

NameTaken == SnakeOf(args.project_name) \in fs.dirs \ {template_src_dir}

C10_BothSubstitutionsInOrder ==
    /\ \A f \in DOMAIN subst : subst[f] \in {<<>>, <<1>>, <<2>>, <<1, 2>>}
    /\ stage["update_template"] = "done" =>
          \A f \in DOMAIN subst : subst[f] = <<1, 2>>


\* C11: a failure of either of init_venv's two steps (creating the
\* environment, upgrading pip) reaches the caller, so init_venv does not
\* return normally after one; and no step is run a second time.
C11_VenvFailureReported ==
    /\ Len(rcs) <= 2
    /\ stage["init_venv"] = "done" => \A i \in DOMAIN rcs : rcs[i] = 0

\* C12: the process exits 0 exactly when all four stages succeeded, every
\* step of theirs included, and non-zero at the first stage that failed.
C12_ExitStatus ==
    /\ ExitStatus = 0 =>
          /\ \A s \in Stages : stage[s] = "done"
          /\ ~SubstFailed
          /\ rcs = <<0, 0>>
    /\ ExitStatus = 1 =>
          /\ stage[Running] = "failed"
          /\ \A s \in Stages \ {Running} : stage[s] \in {"done", "idle"}

\* What the run has made so far stays: no step takes away proj_dir,
\* repo_dir, a file, a commit, a remote or the repository on GitHub.
Kept ==
    /\ fs.proj => fs'.proj
    /\ fs.repo => fs'.repo
    /\ Len(fs'.files) >= Len(fs.files)
    /\ repo'.commits >= repo.commits
    /\ repo.remotes \subseteq repo'.remotes
    /\ hosting \in {"created", "pushed"} => hosting' \in {"created", "pushed"}
    /\ venv.at # <<>> => venv'.at = venv.at

\* C13: there is no rollback. The step that fails and every step after it
\* keep what was made; after a failure past stage 1 proj_dir and the tree
\* are in place, after a failed API call or push the local commit is there,
\* and after a failed push the repository created on GitHub is there.
C13_NoRollback ==
    /\ [][(pc' = "failed" \/ pc = "failed") => Kept]_vars
    /\ [](pc = "failed" =>
            /\ err \in {"rename", "git_init", "git_add", "git_commit", "post",
                        "status_check", "push", "venv", "pip"} =>
                    fs.proj /\ fs.repo /\ Len(fs.files) = Len(template.files)
            /\ err \in {"post", "status_check", "push"} =>
                    fs.git = "fresh" /\ repo.commits = 1
            /\ err = "push" => hosting = "created" /\ repo.remotes = {"origin"})

C13_Witness ==
    /\ pc = "failed" /\ err = "push"
    /\ hosting = "created"
    /\ repo.commits = 1

\* How many times op is in the network log of the run.
Attempts(op) == Cardinality({i \in DOMAIN net : net[i] = op})

\* C14: in a run each of the clone, the create-repository call and the push
\* is attempted at most once, failed or not.
C14_NoRetry == \A op \in {"clone", "post", "push"} : Attempts(op) <= 1

C14_Witness ==
    /\ pc = "failed" /\ err = "push"
    /\ Attempts("clone") = 1 /\ Attempts("post") = 1 /\ Attempts("push") = 1

\* A step that takes something away from disk.
Deletes ==
    \/ fs.git # "none" /\ fs'.git = "none"
    \/ fs.proj /\ ~fs'.proj
    \/ fs.repo /\ ~fs'.repo
    \/ Len(fs'.files) < Len(fs.files)
    \/ fs.dirs # {} /\ fs'.dirs = {}
    \/ venv.at # <<>> /\ venv'.at = <<>>

\* C16: in both modes, when init_project_dir has returned repo_dir holds no
\* .git of the template; the removal is the step right after the copy or
\* the clone, it ends the stage, before update_template starts, and no
\* other step of a run deletes anything.
C16_OnlyTemplateGitDeleted ==
    /\ [](stage["init_project_dir"] = "done" =>
            /\ fs.git # "template"
            /\ stage["update_template"] = "idle" => fs.git = "none" /\ Len(fs.files) > 0)
    /\ [][/\ (pc \in {"clone", "copytree"} /\ pc' # "failed") => pc' = "rmtree"
          /\ Deletes =>
                /\ pc = "rmtree" /\ fs.git = "template"
                /\ fs' = [fs EXCEPT !.git = "none"]
                /\ stage'["init_project_dir"] = "done"
                /\ stage'["update_template"] = "idle"]_vars

C16_Witness ==
    /\ args.sync
    /\ started = <<"init_project_dir">> /\ stage["init_project_dir"] = "done"
    /\ fs.git = "none" /\ fs.repo

\* C17: the template source is chosen by args.sync alone. Without --sync the
\* run copies the local template and makes no clone, no API call, no remote
\* and no push; with --sync the run makes repo_dir, clones into it and never
\* copies the local template.
C17_OneTemplateSource ==
    /\ ~args.sync =>
          /\ net = <<>> /\ repo.remotes = {} /\ status = 0
          /\ hosting \in {"absent", "taken"}
          /\ pc \notin {"pull_makedirs", "clone", "post", "status_check", "create_remote", "push"}
    /\ args.sync =>
          /\ pc # "copytree"
          /\ pc = "clone" => fs.repo
          /\ stage["init_project_dir"] = "done" => net[1] = "clone"

C17_Witness ==
    /\ ~args.sync
    /\ pc = "done"
    /\ net = <<>> /\ hosting = "absent"
    /\ Len(fs.files) > 0


\* The processes that got past os.makedirs(proj_dir).
PassedMakedirs == {p \in Procs : race[p].wrote # <<>>}

\* C15: of two runs started at once on the same proj_dir at most one gets
\* past os.makedirs(proj_dir), under every interleaving; once one has, the
\* other fails there when it comes to it, and a process that failed there
\* has written nothing under proj_dir.
C15_OneRunOwnsProjDir ==
    /\ Cardinality(PassedMakedirs) <= 1
    /\ \A p \in Procs :
          /\ race[p].err = "makedirs" => race[p].wrote = <<>>
          /\ (race[p].pc # "makedirs" /\ PassedMakedirs \notin {{}, {p}}) =>
                race[p].err = "makedirs"

\* One process has rewritten the tree and the other has failed at makedirs.
C15_Witness ==
    \E p, q \in Procs :
        /\ race[p].pc = "init_repo"
        /\ race[q].pc = "failed" /\ race[q].err = "makedirs"
        /\ fs.git = "none" /\ Len(fs.files) > 0


\* The entries of q the claim has ignored: named .DS_Store, or with an
\* extension in the caller's list.
ToIgnore(q, exts) == {i \in DOMAIN q : q[i] = DS_STORE \/ SplitExt(q[i]) \in exts}

\* C18: when push_files_to_s3 is over it has uploaded every entry of
\* local_dir that is not to be ignored, once each, and none that is.
C18_PushFilesUploadsAll ==
    (s3.method = "push_files_to_s3" /\ s3.pc \in {"returned", "raised"}) =>
        /\ \A i \in DOMAIN s3.listing \ ToIgnore(s3.listing, s3.kwrgs.exts) :
              Cardinality({j \in DOMAIN s3.uploads : s3.uploads[j] = s3.listing[i]}) = 1
        /\ \A i \in ToIgnore(s3.listing, s3.kwrgs.exts) :
              \A j \in DOMAIN s3.uploads : s3.uploads[j] # s3.listing[i]

\* The error records of the call that has ended.
Logged == Len(wrap.log) - wrap.mark

\* C19, as claimed: when the function returns the wrapper returns the same
\* value and logs no error; when it raises, the wrapper logs one error and
\* then raises the same exception if raise_exception, else returns None.
C19_WrapperContract ==
    wrap.pc \in {"returned", "raised"} =>
        /\ wrap.outcome.kind = "return" =>
              wrap.pc = "returned" /\ wrap.result = wrap.outcome.what /\ Logged = 0
        /\ wrap.outcome.kind = "raise" =>
              /\ Logged = 1
              /\ wrap.raise_exception => wrap.pc = "raised" /\ wrap.raised = wrap.outcome.what
              /\ ~wrap.raise_exception => wrap.pc = "returned" /\ wrap.result = "None"

\* C19, amended: the same, where "raises" is an exception of a class derived
\* from Exception; one derived from BaseException only (KeyboardInterrupt,
\* SystemExit) leaves the wrapper as it came, unlogged, whatever
\* raise_exception is.
C19_WrapperContractForException ==
    wrap.pc \in {"returned", "raised"} =>
        /\ wrap.outcome.kind = "return" =>
              wrap.pc = "returned" /\ wrap.result = wrap.outcome.what /\ Logged = 0
        /\ (wrap.outcome.kind = "raise" /\ wrap.outcome.what \in {"ValueError", "KeyError"}) =>
              /\ Logged = 1
              /\ wrap.log[Len(wrap.log)] = [level |-> "ERROR", exc |-> wrap.outcome.what]
              /\ wrap.raise_exception => wrap.pc = "raised" /\ wrap.raised = wrap.outcome.what
              /\ ~wrap.raise_exception => wrap.pc = "returned" /\ wrap.result = "None"
        /\ (wrap.outcome.kind = "raise" /\ wrap.outcome.what \in {"KeyboardInterrupt", "SystemExit"}) =>
              wrap.pc = "raised" /\ wrap.raised = wrap.outcome.what /\ Logged = 0

\* The second call has raised ValueError again after logging it once.
C19_Witness ==
    /\ wrap.calls = 2
    /\ wrap.raise_exception
    /\ wrap.pc = "raised" /\ wrap.raised = "ValueError"
    /\ Logged = 1 /\ Len(wrap.log) = 2


\* The tokens of a run: what the substitution looks for and what it writes.
TemplateTokens == {template_src_dir, template_name}
ProjectTokens(project_name) == {SnakeOf(project_name), project_name}

\* Two texts overlap when one holds the other or an end of one is a start
\* of the other.
Overlap(x, y) ==
    \/ Contains(x, y) \/ Contains(y, x)
    \/ \E k \in 1..Len(x) : k <= Len(y) /\ SubSeq(x, Len(x) - k + 1, Len(x)) = SubSeq(y, 1, k)
    \/ \E k \in 1..Len(y) : k <= Len(x) /\ SubSeq(y, Len(y) - k + 1, Len(y)) = SubSeq(x, 1, k)

\* Both applications of the substitution are over.
AppliedTwice == rw.applied = 1 /\ rw.zi > Len(zipd(args.project_name))

\* C20, as claimed: if neither project token contains a template token, the
\* second application of the two-pair substitution changes nothing.
C20_SecondPassChangesNothing ==
    (AppliedTwice /\ \A y \in ProjectTokens(args.project_name), x \in TemplateTokens : ~Contains(y, x))
        => rw.text = rw.once

\* C20, amended: if no project token overlaps a template token, the second
\* application of the two-pair substitution changes nothing.
C20_SecondPassChangesNothingNoOverlap ==
    (AppliedTwice /\ \A y \in ProjectTokens(args.project_name), x \in TemplateTokens : ~Overlap(y, x))
        => rw.text = rw.once

\* A file that named the template twice has been rewritten twice for a
\* project whose tokens overlap no template token, and names the project
\* twice.
C20_Witness ==
    /\ AppliedTwice
    /\ \A y \in ProjectTokens(args.project_name), x \in TemplateTokens : ~Overlap(y, x)
    /\ rw.content = template_name \o template_src_dir
    /\ rw.text = args.project_name \o SnakeOf(args.project_name)
    /\ rw.once = rw.text


\* C21: whenever init_venv has returned, whatever its two subprocesses
\* exited with, the working directory is the one init_venv was called in;
\* and the environment it makes is at repo_dir/.venv, repo_dir being the
\* path main gave to the earlier stages.
C21_CwdRestoredVenvInRepoDir ==
    /\ pc = "chdir" => cwd = StartDir
    /\ stage["init_venv"] = "done" => cwd = StartDir
    /\ venv.at # <<>> => venv.at = RepoDir(args) \o <<".venv">>

\* init_venv has returned after both subprocesses exited non-zero: the
\* environment is at repo_dir/.venv and the working directory is restored.
C21_Witness ==
    /\ stage["init_venv"] = "done"
    /\ rcs = <<1, 1>>
    /\ venv.at = RepoDir(args) \o <<".venv">>
    /\ cwd = StartDir
    /\ current = StartDir

====
